---- MODULE Spec2Model ----
(***************************************************************************)
(* Model of the Stellest myopia-progression predictor:                      *)
(*   src/model.py       MyopiaPredictionModel (feature pipeline, training,  *)
(*                      prediction, persistence)                            *)
(*   src/api_server.py  the serving process (load_model, /api/predict,      *)
(*                      /api/generate-report)                               *)
(* Numbers are exact rationals [k, n, d]; k = "nan" is the float NaN.       *)
(* Strings are sequences of one-character strings.                          *)
(***************************************************************************)
EXTENDS Integers, Sequences, FiniteSets, TLC

\* ------------------------------------------------------------------ bounds
\* largest wearing_hours a request carries (the ideal is 12)
MaxWear == 13
\* most negative wearing_hours a request carries
MaxNegWear == 1
\* largest number of rows of a training table
MaxRows == 3

\* Body(e) with e evaluated once, to an explicit value
Let(e, Body(_)) == CHOOSE out \in {Body(x) : x \in {v \in {e} : v = v}} : TRUE

\* ------------------------------------------------------- exact arithmetic
Abs(i) == IF i < 0 THEN -i ELSE i

RECURSIVE Gcd(_, _)
Gcd(a, b) == IF b = 0 THEN a ELSE Gcd(b, a % b)

NaN == [k |-> "nan", n |-> 0, d |-> 1]

\* float('inf') and float('-inf'): a denominator of zero
Inf    == [k |-> "num", n |-> 1, d |-> 0]
NegInf == [k |-> "num", n |-> -1, d |-> 0]

Rat(n, d) ==
    IF d = 0 THEN (IF n = 0 THEN NaN ELSE IF n < 0 THEN NegInf ELSE Inf)
    ELSE LET s == IF d < 0 THEN -1 ELSE 1
             g == Gcd(Abs(n), Abs(d))
         IN  [k |-> "num", n |-> (s * n) \div g, d |-> (s * d) \div g]

RInt(i) == Rat(i, 1)

IsNaN(a) == a.k = "nan"
IsInf(a) == a.k = "num" /\ a.d = 0
\* numpy.isfinite
IsFinite(a) == a.k = "num" /\ a.d # 0

RNeg(a) == IF IsNaN(a) THEN NaN ELSE [a EXCEPT !.n = -a.n]

\* inf + inf = inf, inf - inf = nan
RAdd(a, b) ==
    IF IsNaN(a) \/ IsNaN(b) THEN NaN
    ELSE IF IsInf(a) /\ IsInf(b) THEN (IF a = b THEN a ELSE NaN)
    ELSE Rat(a.n * b.d + b.n * a.d, a.d * b.d)
RSub(a, b) == RAdd(a, RNeg(b))
RMul(a, b) == IF IsNaN(a) \/ IsNaN(b) THEN NaN ELSE Rat(a.n * b.n, a.d * b.d)
\* the divisor is never zero where this is used
RDiv(a, b) ==
    IF IsNaN(a) \/ IsNaN(b) THEN NaN
    ELSE Rat((IF b.n < 0 THEN -1 ELSE 1) * a.n * b.d, a.d * Abs(b.n))
RAbs(a)    == IF IsNaN(a) THEN NaN ELSE Rat(Abs(a.n), a.d)

\* comparisons with NaN are false, as for IEEE floats
RLt(a, b) ==
    /\ ~IsNaN(a) /\ ~IsNaN(b)
    /\ IF IsInf(a) /\ IsInf(b) THEN a.n < b.n ELSE a.n * b.d < b.n * a.d
RLe(a, b) ==
    /\ ~IsNaN(a) /\ ~IsNaN(b)
    /\ IF IsInf(a) /\ IsInf(b) THEN a.n <= b.n ELSE a.n * b.d <= b.n * a.d
RGt(a, b) == RLt(b, a)
RGe(a, b) == RLe(b, a)
RNe(a, b) == a # b

\* numpy.clip / Series.clip: NaN stays NaN
Clip(a, lo, hi) == IF IsNaN(a) THEN NaN ELSE IF RLt(a, lo) THEN lo ELSE IF RGt(a, hi) THEN hi ELSE a

\* the smallest positive float, 2^-1074 (5e-324), held at 10^-6: below every
\* other positive number the model computes with
MinFloat == Rat(1, 1000000)

\* ----------------------------------------------------------------- strings
Lower == <<"a", "b", "c", "d", "e", "f", "g", "h", "i", "j", "k", "l", "m",
           "n", "o", "p", "q", "r", "s", "t", "u", "v", "w", "x", "y", "z">>
Upper == <<"A", "B", "C", "D", "E", "F", "G", "H", "I", "J", "K", "L", "M",
           "N", "O", "P", "Q", "R", "S", "T", "U", "V", "W", "X", "Y", "Z">>

UpperChar(c) == IF \E i \in 1..26 : Lower[i] = c
                THEN Upper[CHOOSE i \in 1..26 : Lower[i] = c]
                ELSE c

\* str.upper()
StrUpper(s) == [i \in 1..Len(s) |-> UpperChar(s[i])]

\* the Python test  sub in s
Contains(s, sub) ==
    \E i \in 0..(Len(s) - Len(sub)) : \A j \in 1..Len(sub) : s[i + j] = sub[j]

sNone   == <<"N", "o", "n", "e">>
sOne    == <<"O", "n", "e">>
sBoth   == <<"B", "o", "t", "h">>
sMother == <<"M", "o", "t", "h", "e", "r">>
sFather == <<"F", "a", "t", "h", "e", "r">>
sMF     == <<"M", "o", "t", "h", "e", "r", ",", " ", "F", "a", "t", "h", "e", "r">>
sFM     == <<"F", "a", "t", "h", "e", "r", ",", " ", "M", "o", "t", "h", "e", "r">>
sNil    == <<"N", "i", "l">>

\* ------------------------------------------------------------- raw cells
\* a spreadsheet cell: missing, a number, or text
Missing  == [t |-> "missing", v |-> NaN, s |-> <<>>]
NumCell(v) == [t |-> "num", v |-> v, s |-> <<>>]
StrCell(s) == [t |-> "str", v |-> NaN, s |-> s]

\* pd.isna(cell)
IsNa(c) == c.t = "missing" \/ (c.t = "num" /\ IsNaN(c.v))

\* ------------------------------------------------- model.py field encoders
\* _encode_myopic_parents: a number is stringified and holds no letters
encode_myopic_parents(value) ==
    IF IsNa(value) THEN 0
    ELSE IF value.t # "str" THEN 0
    ELSE LET u == StrUpper(value.s)
         IN  IF Contains(u, StrUpper(sBoth)) \/ Contains(u, StrUpper(sMF)) \/ Contains(u, StrUpper(sFM))
             THEN 2
             ELSE IF Contains(u, StrUpper(sMother)) \/ Contains(u, StrUpper(sFather))
                     \/ Contains(u, StrUpper(sOne))
                  THEN 1
                  ELSE 0

\* --------------------------------------------------- python string methods
Digits == <<"0", "1", "2", "3", "4", "5", "6", "7", "8", "9">>
IsDigit(c) == \E i \in 1..10 : Digits[i] = c

LowerChar(c) == IF \E i \in 1..26 : Upper[i] = c
                THEN Lower[CHOOSE i \in 1..26 : Upper[i] = c]
                ELSE c

\* str.lower()
StrLower(s) == [i \in 1..Len(s) |-> LowerChar(s[i])]

\* str.replace(sub, ''): every occurrence, left to right
RECURSIVE Remove(_, _)
Remove(s, sub) ==
    IF Len(s) < Len(sub) THEN s
    ELSE IF SubSeq(s, 1, Len(sub)) = sub THEN Remove(SubSeq(s, Len(sub) + 1, Len(s)), sub)
    ELSE <<s[1]>> \o Remove(Tail(s), sub)

\* str.strip()
Strip(s) ==
    LET ink == {i \in 1..Len(s) : s[i] # " "}
    IN  IF ink = {} THEN <<>>
        ELSE SubSeq(s, CHOOSE i \in ink : \A j \in ink : i <= j,
                       CHOOSE i \in ink : \A j \in ink : j <= i)

\* str.split(sub)[0]: the text before the first occurrence of sub
SplitHead(s, sub) ==
    LET at == {i \in 1..(Len(s) - Len(sub) + 1) : SubSeq(s, i, i + Len(sub) - 1) = sub}
    IN  IF at = {} THEN s ELSE SubSeq(s, 1, (CHOOSE i \in at : \A j \in at : i <= j) - 1)

\* the end of the run of digits that starts at i
RunEnd(s, i) ==
    CHOOSE j \in i..Len(s) :
        /\ \A k \in i..j : IsDigit(s[k])
        /\ (j = Len(s) \/ ~IsDigit(s[j + 1]))

\* re.findall(r'\d+(?:\.\d+)?', s): the first match, <<>> when there is none
FirstNumber(s) ==
    LET at == {i \in 1..Len(s) : IsDigit(s[i])}
    IN  IF at = {} THEN <<>>
        ELSE LET i == CHOOSE i \in at : \A j \in at : i <= j
                 e == RunEnd(s, i)
             IN  IF e + 2 <= Len(s) /\ s[e + 1] = "." /\ IsDigit(s[e + 2])
                 THEN SubSeq(s, i, RunEnd(s, e + 2))
                 ELSE SubSeq(s, i, e)

RECURSIVE DigitsValue(_)
DigitsValue(s) ==
    IF Len(s) = 0 THEN 0 ELSE 10 * DigitsValue(SubSeq(s, 1, Len(s) - 1)) + ((CHOOSE i \in 1..10 : Digits[i] = s[Len(s)]) - 1)

RECURSIVE Pow10(_)
Pow10(k) == IF k = 0 THEN 1 ELSE 10 * Pow10(k - 1)

\* the exception float() raises on text that is no number
ValueError == [k |-> "ValueError", n |-> 0, d |-> 1]

\* the digits of float(): at most one point and at least one digit
float_digits(body, dots) ==
    IF \/ \A i \in 1..Len(body) : ~IsDigit(body[i])
       \/ \E i \in 1..Len(body) : ~IsDigit(body[i]) /\ body[i] # "."
       \/ Cardinality(dots) > 1
    THEN ValueError
    ELSE LET p    == IF dots = {} THEN Len(body) + 1 ELSE CHOOSE i \in dots : TRUE
             frac == SubSeq(body, p + 1, Len(body))
         IN  Rat(DigitsValue(SubSeq(body, 1, p - 1)) * Pow10(Len(frac)) + DigitsValue(frac),
                 Pow10(Len(frac)))

\* float() after the sign: nan, inf, infinity in any letter case, or digits
float_unsigned(body, word) ==
    IF word = <<"N", "A", "N">> THEN NaN
    ELSE IF word \in {<<"I", "N", "F">>, <<"I", "N", "F", "I", "N", "I", "T", "Y">>} THEN Inf
    ELSE float_digits(body, {i \in 1..Len(body) : body[i] = "."})

\* float() of stripped text: an optional sign, then the number
float_stripped(t, body) ==
    IF Len(t) > 0 /\ t[1] = "-"
    THEN Let(float_unsigned(body, StrUpper(body)),
             LAMBDA v : IF v = ValueError THEN v ELSE RNeg(v))
    ELSE float_unsigned(body, StrUpper(body))

\* float(s) on text without exponent or underscore: surrounding blanks, a sign,
\* then the number
float(s) ==
    Let(Strip(s), LAMBDA t :
        float_stripped(t, IF Len(t) > 0 /\ t[1] \in {"+", "-"} THEN Tail(t) ELSE t))

RECURSIVE IntStr(_)
IntStr(i) == IF i < 10 THEN <<Digits[i + 1]>> ELSE IntStr(i \div 10) \o <<Digits[(i % 10) + 1]>>

\* str(value): a text cell is itself; a whole number prints without a point, a
\* number of hundredths with its one or two decimals
str(c) ==
    IF c.t = "str" THEN c.s
    ELSE LET a    == Abs(c.v.n)
             sign == IF c.v.n < 0 THEN <<"-">> ELSE <<>>
             h    == ((a % c.v.d) * 100) \div c.v.d
         IN  IF c.v.d = 1 THEN sign \o IntStr(a)
             ELSE sign \o IntStr(a \div c.v.d) \o <<".">> \o
                  (IF h % 10 = 0 THEN IntStr(h \div 10) ELSE <<Digits[(h \div 10) + 1]>> \o IntStr(h % 10))

\* a handler that lets the exception out
except_reraise(r, default) == r

\* try: return r / except: return default
except_return(r, default) == IF r = ValueError THEN default ELSE r


\* _extract_age
extract_age(age_str) ==
    IF IsNa(age_str) THEN NaN
    ELSE Let(StrUpper(str(age_str)), LAMBDA u :
             except_return(IF Contains(u, <<"Y", "R", "S">>) \/ Contains(u, <<"Y", "R">>)
                           THEN float(Strip(Remove(Remove(u, <<"Y", "R", "S">>), <<"Y", "R">>)))
                           ELSE float(u),
                           NaN))

\* _extract_hours
extract_hours(time_str) ==
    IF IsNa(time_str) THEN NaN
    ELSE Let(StrLower(str(time_str)), LAMBDA l :
         Let(FirstNumber(l), LAMBDA numbers :
             except_return(IF Contains(l, <<"h", "r">>) /\ numbers # <<>>
                           THEN float(numbers) ELSE float(l),
                           NaN)))

\* _extract_diopters
extract_diopters(value) ==
    IF IsNa(value) \/ (value.t = "num" /\ value.v = RInt(0)) THEN RInt(0)
    ELSE Let(StrUpper(str(value)), LAMBDA u :
         Let(IF Contains(u, <<"D", "S">>) THEN Strip(Remove(u, <<"D", "S">>)) ELSE u, LAMBDA ds :
             except_return(float(IF Contains(ds, <<"D", "C">>)
                                 THEN Strip(SplitHead(ds, <<"D", "C">>)) ELSE ds),
                           RInt(0))))

\* pd.to_numeric(errors='coerce') on one cell
to_numeric(value) == IF IsNa(value) THEN NaN ELSE except_return(float(str(value)), NaN)

\* _extract_axial_length
extract_axial_length(value) ==
    IF IsNa(value) THEN NaN
    ELSE except_return(float(Strip(Remove(StrUpper(str(value)), <<"M", "M">>))), NaN)

\* round(x, digits) with scale = 10^digits: nearest multiple of 1/scale, ties to even
RRound(a, scale) ==
    IF ~IsFinite(a) THEN a
    ELSE LET num == a.n * scale
             q   == num \div a.d
             r   == num % a.d
         IN  IF 2 * r < a.d THEN Rat(q, scale)
             ELSE IF 2 * r > a.d THEN Rat(q + 1, scale)
             ELSE IF q % 2 = 0 THEN Rat(q, scale) ELSE Rat(q + 1, scale)

\* ------------------------------------------------- api_server.PatientData
sM == <<"M">>
sF == <<"F">>

\* the documented values of myopic_parents and their other letter-case spellings
DocumentedParents ==
    { sNone, sOne, sBoth,
      <<"n", "o", "n", "e">>, <<"N", "O", "N", "E">>,
      <<"o", "n", "e">>, <<"O", "N", "E">>,
      <<"b", "o", "t", "h">>, <<"B", "O", "T", "H">> }

BasePatient ==
    [ age |-> RInt(9), gender |-> sM, age_diagnosis |-> RInt(7),
      myopic_parents |-> sBoth,
      outdoor_hours |-> RInt(1), screen_hours |-> RInt(5),
      had_myopia_control |-> FALSE,
      re_spherical |-> RInt(-4), re_cylinder |-> RInt(0),
      le_spherical |-> RInt(-4), le_cylinder |-> Rat(-1, 2),
      re_axial_length |-> RInt(25), le_axial_length |-> RInt(25),
      wearing_hours |-> RInt(6) ]

\* values on, next to and between the thresholds of the risk rules
Scored ==
    [ ages |-> {RInt(8), Rat(19, 2), RInt(10), RInt(11), RInt(12), RInt(14)},
      severities |-> {RInt(0), RInt(1), Rat(3, 2), RInt(2), RInt(3), Rat(25, 8), Rat(7, 2)},
      axial_lengths |-> {RInt(23), RInt(24), Rat(97, 4), Rat(49, 2), Rat(99, 4)},
      hours |-> {RInt(1), RInt(2), Rat(5, 2), RInt(3), Rat(7, 2), RInt(4), Rat(9, 2)} ]

\* the request bodies: one field varied at a time around BasePatient
PatientInputs ==
    { [BasePatient EXCEPT !.myopic_parents = p] : p \in DocumentedParents \cup {sMother, sNil} }
    \cup { [BasePatient EXCEPT !.wearing_hours = RInt(w)] : w \in (-MaxNegWear)..MaxWear }
    \cup { [BasePatient EXCEPT !.wearing_hours = Rat(2 * w + 1, 2)] : w \in (-MaxNegWear)..MaxWear }
    \cup { [BasePatient EXCEPT !.age = RInt(13), !.gender = sF, !.had_myopia_control = TRUE,
                               !.outdoor_hours = RInt(3), !.screen_hours = RInt(0),
                               !.le_cylinder = RInt(0), !.re_axial_length = RInt(23)] }
    \cup { [BasePatient EXCEPT !.outdoor_hours = o, !.screen_hours = RInt(0)] :
                o \in {RInt(0), Rat(-1, 10)} }
    \cup { [BasePatient EXCEPT !.wearing_hours = RMul(RInt(12), MinFloat)] }

\* the request bodies of the risk analyses: the scenario patient with one
\* scored quantity moved across its thresholds
ScoredInputs ==
    { [BasePatient EXCEPT !.age = a, !.re_spherical = RNeg(v), !.le_spherical = RNeg(v)] :
                a \in Scored.ages, v \in Scored.severities \cup {RInt(4)} }
    \cup { [BasePatient EXCEPT !.re_axial_length = v, !.le_axial_length = v] :
                v \in Scored.axial_lengths }
    \cup { [BasePatient EXCEPT !.screen_hours = v] : v \in Scored.hours }
    \cup { [BasePatient EXCEPT !.outdoor_hours = v] : v \in Scored.hours }
    \cup { [BasePatient EXCEPT !.myopic_parents = p] : p \in {sNone, sOne, sBoth} }
    \cup { [BasePatient EXCEPT !.wearing_hours = RInt(w)] : w \in {6, 9, 10, 11, 12} }

\* ------------------------------------------- api_server feature building
\* {"None": 0, "One": 1, "Both": 2}.get(patient_data.myopic_parents, 0)
myopic_parents_encoded(pd) ==
    IF pd.myopic_parents = sNone THEN 0
    ELSE IF pd.myopic_parents = sOne THEN 1
    ELSE IF pd.myopic_parents = sBoth THEN 2
    ELSE 0

\* 1 if patient_data.gender.upper() in ["M", "MALE"] else 0
gender_encoded(pd) ==
    IF StrUpper(pd.gender) \in {sM, <<"M", "A", "L", "E">>} THEN 1 ELSE 0

avg_spherical(pd)    == RDiv(RAdd(pd.re_spherical, pd.le_spherical), RInt(2))
myopia_severity(pd)  == RAbs(avg_spherical(pd))
avg_axial_length(pd) == RDiv(RAdd(pd.re_axial_length, pd.le_axial_length), RInt(2))
years_since_diagnosis(pd) == RSub(pd.age, pd.age_diagnosis)
\* python raises ZeroDivisionError when outdoor_hours + 0.1 = 0
ratio_faults(pd)     == RAdd(pd.outdoor_hours, Rat(1, 10)) = RInt(0)
screen_outdoor_ratio(pd) ==
    IF ratio_faults(pd) THEN NaN
    ELSE RDiv(pd.screen_hours, RAdd(pd.outdoor_hours, Rat(1, 10)))

\* wearing_hours / 12 without the clip
compliance_unclipped(pd) == RDiv(pd.wearing_hours, RInt(12))
\* float(np.clip(patient_data.wearing_hours / 12, 0, 1))
compliance_score(pd) == Clip(RDiv(pd.wearing_hours, RInt(12)), RInt(0), RInt(1))

has_astigmatism(pd) ==
    IF RNe(pd.re_cylinder, RInt(0)) \/ RNe(pd.le_cylinder, RInt(0)) THEN 1 ELSE 0
axial_length_abnormal(pd) == IF RGt(avg_axial_length(pd), Rat(49, 2)) THEN 1 ELSE 0

F(name, value) == [name |-> name, value |-> value]

\* the list with outdoor_hours and screen_hours exchanged
features_swapped(pd) ==
    << F("age", pd.age),
       F("age_at_diagnosis", pd.age_diagnosis),
       F("years_since_diagnosis", years_since_diagnosis(pd)),
       F("gender", RInt(gender_encoded(pd))),
       F("myopic_parents", RInt(myopic_parents_encoded(pd))),
       F("screen_hours", pd.screen_hours),
       F("outdoor_hours", pd.outdoor_hours),
       F("screen_outdoor_ratio", screen_outdoor_ratio(pd)),
       F("had_myopia_control", RInt(IF pd.had_myopia_control THEN 1 ELSE 0)),
       F("myopia_severity", myopia_severity(pd)),
       F("has_astigmatism", RInt(has_astigmatism(pd))),
       F("avg_axial_length", avg_axial_length(pd)),
       F("axial_length_abnormal", RInt(axial_length_abnormal(pd))),
       F("wearing_hours", pd.wearing_hours),
       F("compliance_score", compliance_score(pd)) >>

\* the list  features  of predict and generate_report, each element tagged
\* with the quantity the code puts at that position
features(pd) ==
    << F("age", pd.age),
       F("age_at_diagnosis", pd.age_diagnosis),
       F("years_since_diagnosis", years_since_diagnosis(pd)),
       F("gender", RInt(gender_encoded(pd))),
       F("myopic_parents", RInt(myopic_parents_encoded(pd))),
       F("outdoor_hours", pd.outdoor_hours),
       F("screen_hours", pd.screen_hours),
       F("screen_outdoor_ratio", screen_outdoor_ratio(pd)),
       F("had_myopia_control", RInt(IF pd.had_myopia_control THEN 1 ELSE 0)),
       F("myopia_severity", myopia_severity(pd)),
       F("has_astigmatism", RInt(has_astigmatism(pd))),
       F("avg_axial_length", avg_axial_length(pd)),
       F("axial_length_abnormal", RInt(axial_length_abnormal(pd))),
       F("wearing_hours", pd.wearing_hours),
       F("compliance_score", compliance_score(pd)) >>

\* feature_cols of train_models
feature_cols ==
    << "age", "age_at_diagnosis", "years_since_diagnosis", "gender",
       "myopic_parents", "outdoor_hours", "screen_hours", "screen_outdoor_ratio",
       "had_myopia_control", "myopia_severity", "has_astigmatism",
       "avg_axial_length", "axial_length_abnormal", "wearing_hours", "compliance_score" >>

\* ------------------------------------------------ model.py training table
RawRow(age, gender, age_diagnosis, parents, outdoor, screen, control, re_sph, le_sph, re_cyl, le_cyl, re_ax, le_ax, wearing, qol) ==
    [ age |-> age, gender |-> gender, age_diagnosis |-> age_diagnosis,
      myopic_parents |-> parents, outdoor_time |-> outdoor, screen_time |-> screen,
      myopia_control |-> control, re_spherical |-> re_sph, le_spherical |-> le_sph,
      re_cylinder |-> re_cyl, le_cylinder |-> le_cyl,
      re_axial_length |-> re_ax, le_axial_length |-> le_ax,
      wearing_time |-> wearing, qol_score |-> qol ]

N(i) == NumCell(RInt(i))

\* rows of the spreadsheet: a high-, a medium- and a low-score patient, and a
\* row whose cells are missing or unmapped
RowHigh == RawRow(N(9), StrCell(sM), N(7), StrCell(sBoth), N(1), N(5), Missing,
                  N(-4), N(-4), N(0), NumCell(Rat(-1, 2)), N(25), N(25), N(6), N(4))
RowMedium == RawRow(N(11), StrCell(sF), N(8), StrCell(sFM), N(1), N(2), StrCell(sOne),
                    N(-1), N(-1), N(0), N(0), N(23), N(24), N(14), N(3))
RowLow == RawRow(N(13), StrCell(sF), N(10), StrCell(sNil), N(3), N(2), Missing,
                 N(-1), N(-2), N(0), N(0), N(23), N(23), N(-1), Missing)
RowMissing == RawRow(Missing, StrCell(<<"m">>), Missing, Missing, Missing, Missing, Missing,
                     Missing, Missing, Missing, Missing, Missing, Missing, Missing, Missing)

AllRows == <<RowHigh, RowMedium, RowLow, RowMissing>>

\* the spreadsheets the training reads: the first or the last rows of the
\* sheet above, at most MaxRows of them
Ends(rows, m) ==
    {SubSeq(rows, 1, k) : k \in 0..m} \cup {SubSeq(rows, Len(rows) - k + 1, Len(rows)) : k \in 0..m}
RawTables ==
    Let(AllRows, LAMBDA rows : Ends(rows, IF MaxRows < Len(rows) THEN MaxRows ELSE Len(rows)))

\* df['gender'].map({'M': 1, 'F': 0, 'Male': 1, 'Female': 0})
gender_map(c) ==
    IF c.t # "str" THEN NaN
    ELSE IF c.s \in {sM, <<"M", "a", "l", "e">>} THEN RInt(1)
    ELSE IF c.s \in {sF, <<"F", "e", "m", "a", "l", "e">>} THEN RInt(0)
    ELSE NaN

B(b) == IF b THEN 1 ELSE 0

\* risk_score of _calculate_progression_risk on one row, before the cut
rule_score(r) ==
      B(RLt(r.age, RInt(10))) * 2
    + B(RGe(r.age, RInt(10)) /\ RLt(r.age, RInt(12))) * 1
    + r.myopic_parents.n
    + B(RGt(r.screen_hours, RInt(3))) * 1
    - B(RGt(r.outdoor_hours, RInt(2))) * 1
    + B(RGt(r.myopia_severity, RInt(3))) * 2
    + B(RGt(r.myopia_severity, Rat(3, 2)) /\ RLe(r.myopia_severity, RInt(3))) * 1
    + B(RGt(r.avg_axial_length, Rat(49, 2))) * 2

\* a cut whose bins leave out their upper edge
calculate_progression_risk_open(r) ==
    Let(rule_score(r), LAMBDA risk_score :
        IF risk_score < 2 THEN 0 ELSE IF risk_score < 4 THEN 1 ELSE 2)

\* _calculate_progression_risk on one row
calculate_progression_risk(r) ==
    Let(rule_score(r), LAMBDA risk_score :
        IF risk_score <= 2 THEN 0 ELSE IF risk_score <= 4 THEN 1 ELSE 2)

\* _estimate_progression on one row
estimate_progression(r) ==
    LET base_progression == Rat(1, 2)
        age_factor == IF RLt(r.age, RInt(10)) THEN Rat(3, 2)
                      ELSE IF RLt(r.age, RInt(12)) THEN Rat(6, 5) ELSE Rat(4, 5)
        genetic_factor == RAdd(RInt(1), RMul(r.myopic_parents, Rat(1, 5)))
        env_factor == RSub(RAdd(RInt(1), RDiv(r.screen_hours, RInt(10))),
                           RDiv(r.outdoor_hours, RInt(10)))
        stellest_effect == RMul(Rat(2, 5), r.compliance_score)
        progression == RMul(RMul(RMul(RMul(base_progression, age_factor), genetic_factor),
                                 env_factor), stellest_effect)
    IN  Clip(progression, RInt(0), RInt(2))

\* the parser _process_features applies to each raw column
column_parser ==
    [ age |-> "_extract_age", age_diagnosis |-> "_extract_age",
      outdoor_time |-> "_extract_hours", screen_time |-> "_extract_hours",
      re_spherical |-> "_extract_diopters", le_spherical |-> "_extract_diopters",
      re_cylinder |-> "_extract_diopters", le_cylinder |-> "_extract_diopters",
      re_axial_length |-> "_extract_axial_length", le_axial_length |-> "_extract_axial_length",
      wearing_time |-> "_extract_hours", qol_score |-> "to_numeric",
      myopic_parents |-> "_encode_myopic_parents" ]

\* df[column].apply(parser), on one cell
apply(parser, cell) ==
    CASE parser = "_extract_age" -> extract_age(cell)
      [] parser = "_extract_hours" -> extract_hours(cell)
      [] parser = "_extract_diopters" -> extract_diopters(cell)
      [] parser = "_extract_axial_length" -> extract_axial_length(cell)
      [] parser = "to_numeric" -> to_numeric(cell)
      [] parser = "_encode_myopic_parents" -> RInt(encode_myopic_parents(cell))

\* the columns _process_features builds before the labels, for one raw row
derived_columns(raw) ==
    Let([c \in DOMAIN column_parser |-> apply(column_parser[c], raw[c])], LAMBDA p :
        Let(RDiv(RAdd(p.re_spherical, p.le_spherical), RInt(2)), LAMBDA avg_sph :
        Let(RDiv(RAdd(p.re_axial_length, p.le_axial_length), RInt(2)), LAMBDA avg_ax :
        [ age |-> p.age, age_diagnosis |-> p.age_diagnosis, age_at_diagnosis |-> p.age_diagnosis,
          years_since_diagnosis |-> RSub(p.age, p.age_diagnosis),
          gender |-> gender_map(raw.gender),
          myopic_parents |-> p.myopic_parents,
          outdoor_hours |-> p.outdoor_time, screen_hours |-> p.screen_time,
          screen_outdoor_ratio |-> RDiv(p.screen_time, RAdd(p.outdoor_time, Rat(1, 10))),
          had_myopia_control |-> RInt(B(~IsNa(raw.myopia_control))),
          re_spherical |-> p.re_spherical, le_spherical |-> p.le_spherical,
          avg_spherical |-> avg_sph, myopia_severity |-> RAbs(avg_sph),
          re_cylinder |-> p.re_cylinder, le_cylinder |-> p.le_cylinder,
          has_astigmatism |-> RInt(B(RNe(p.re_cylinder, RInt(0)) \/ RNe(p.le_cylinder, RInt(0)))),
          re_axial_length |-> p.re_axial_length, le_axial_length |-> p.le_axial_length,
          avg_axial_length |-> avg_ax,
          axial_length_abnormal |-> RInt(B(RGt(avg_ax, Rat(49, 2)))),
          wearing_hours |-> p.wearing_time,
          compliance_score |-> Clip(RDiv(p.wearing_time, RInt(12)), RInt(0), RInt(1)),
          qol_score |-> p.qol_score ])))

\* one row of  processed  before the final fillna
processed_row(raw) ==
    Let(derived_columns(raw), LAMBDA d :
        d @@ [ progression_risk |-> RInt(calculate_progression_risk(d)),
               estimated_progression |-> estimate_progression(d) ])

\* the position in vals of its k-th smallest number (ties by position)
KthNumber(vals, k) ==
    LET idx == {i \in 1..Len(vals) : ~IsNaN(vals[i])}
        rank(i) == Cardinality({j \in idx : RLt(vals[j], vals[i]) \/ (vals[j] = vals[i] /\ j < i)})
    IN  CHOOSE i \in idx : rank(i) = k - 1

\* Series.median(): NaN skipped; NaN for a column with no number
Median(column) ==
    Let(column, LAMBDA vals :
        LET n == Cardinality({i \in 1..Len(vals) : ~IsNaN(vals[i])})
        IN  IF n = 0 THEN NaN
            ELSE IF n % 2 = 1 THEN vals[KthNumber(vals, (n + 1) \div 2)]
            ELSE RDiv(RAdd(vals[KthNumber(vals, n \div 2)],
                           vals[KthNumber(vals, n \div 2 + 1)]), RInt(2)))

\* table.fillna(table.median()) over the columns cols
FillNa(t, cols) ==
    Let(t, LAMBDA table :
        Let([c \in cols |-> Median([j \in 1..Len(table) |-> table[j][c]])], LAMBDA median :
            [i \in 1..Len(table) |->
                [c \in DOMAIN table[i] |->
                    IF c \in cols /\ IsNaN(table[i][c]) THEN median[c] ELSE table[i][c]]]))

\* _process_features
process_features(df) ==
    IF df = <<>> THEN <<>>
    ELSE Let([i \in 1..Len(df) |-> processed_row(df[i])], LAMBDA processed :
             FillNa(processed, DOMAIN processed[1]))

\* --------------------------------------------- model.py MyopiaPredictionModel
\* A scikit-learn estimator is abstracted to what the model reads of it:
\* whether it is fitted, the size n of the table it was fitted on
\* (n_samples_seen_) and, for the classifier, classes_ (the sorted distinct
\* labels of the fit).
Est(state, classes, n) == [state |-> state, classes |-> classes, n |-> n]
NoneValue == Est("None", <<>>, 0)
Unfitted  == Est("unfitted", <<>>, 0)

\* __init__
NewModel ==
    [ progression_classifier |-> NoneValue,
      progression_regressor  |-> NoneValue,
      scaler                 |-> Unfitted,
      feature_importance     |-> NoneValue ]

Triple(self) == <<self.scaler, self.progression_classifier, self.progression_regressor>>

IsFitted(self) ==
    /\ self.scaler.state = "fitted"
    /\ self.progression_classifier.state = "fitted"
    /\ self.progression_regressor.state = "fitted"

\* the values predictions are drawn from, in diopters per year: the regressor
\* is an additive ensemble and is not confined to the range of its labels
RegressorOutputs == << Rat(3, 5), Rat(237, 100), RInt(0), Rat(-3, 20), RInt(2), Rat(1237, 1000) >>

\* classes_ of a fit on the labels y
SortedClasses(y) ==
    LET S == {y[i] : i \in 1..Len(y)}
        lt(a) == Cardinality({b \in S : b < a})
    IN  [i \in 1..Cardinality(S) |-> CHOOSE a \in S : lt(a) = i - 1]

\* what an estimator's output depends on besides its own fit: the scaled row
XKey(scaler, fs) == scaler.n + Abs(fs[14].value.n) + fs[14].value.d + fs[5].value.n + fs[1].value.n

\* predict_proba: one probability per class of classes_, summing to 1
predict_proba(clf, key) ==
    LET k == Len(clf.classes)
        win == ((key + clf.n) % k) + 1
    IN  [i \in 1..k |-> IF i = win THEN Rat(4 - (k - 1), 4) ELSE Rat(1, 4)]

\* classifier.predict: the class of largest probability
predict_class(clf, key) ==
    LET p == predict_proba(clf, key)
    IN  clf.classes[CHOOSE i \in 1..Len(p) : \A j \in 1..Len(p) : RLe(p[j], p[i])]

\* regressor.predict
predict_rate(reg, key) == RegressorOutputs[((key + reg.n) % Len(RegressorOutputs)) + 1]

risk_labels == << "Low Risk", "Medium Risk", "High Risk" >>

NoBenefit == [without_stellest |-> NaN, with_stellest |-> NaN, reduction_percentage |-> NaN]

\* the float product a * b: a result nearer to 0 than to MinFloat underflows to 0
float_mul(a, b) ==
    Let(RMul(a, b), LAMBDA p :
        IF ~IsFinite(p) \/ RGe(RAbs(p), MinFloat) THEN p
        ELSE IF RLe(RAbs(p), RDiv(MinFloat, RInt(2))) THEN RInt(0)
        ELSE IF p.n < 0 THEN RNeg(MinFloat) ELSE MinFloat)

ZeroDivisionError == [k |-> "ZeroDivisionError", n |-> 0, d |-> 1]

\* _calculate_stellest_benefit; a float division by 0.0 raises
calculate_stellest_benefit(patient_data, current_progression) ==
    LET compliance == IF Len(patient_data) > 0 THEN patient_data[Len(patient_data)].value
                      ELSE RInt(1)
        divisor == IF RGt(compliance, RInt(0)) THEN float_mul(Rat(2, 5), compliance)
                   ELSE Rat(2, 5)
        without_stellest == RDiv(current_progression, divisor)
        benefit_pct ==
            IF RGt(without_stellest, RInt(0))
            THEN RMul(RDiv(RSub(without_stellest, current_progression), without_stellest), RInt(100))
            ELSE RInt(0)
    IN  IF divisor = RInt(0) THEN ZeroDivisionError
        ELSE [ without_stellest |-> RRound(without_stellest, 100),
               with_stellest |-> RRound(current_progression, 100),
               reduction_percentage |-> RRound(benefit_pct, 10) ]

NoPrediction ==
    [ risk_category |-> "", risk_score |-> -1, risk_probabilities |-> <<>>,
      estimated_progression |-> NaN, stellest_effectiveness |-> NoBenefit ]

Raised(self, err) == [self |-> self, ok |-> FALSE, err |-> err, result |-> NoPrediction]

\* fit_transform([patient_data]) in place of transform: a refit on the one row
scaler_fit_transform(scaler) == Est("fitted", <<>>, 1)

\* self.scaler.transform([patient_data]) reads the fitted scaler and leaves it
\* as it is
scaler_transform(scaler) == scaler

\* a predict that answers Low Risk instead of raising
predict_defaulting(self, patient_data, forest_takes_nan) ==
    [ self |-> self, ok |-> TRUE, err |-> "",
      result |-> [ risk_category |-> risk_labels[1], risk_score |-> 0,
                   risk_probabilities |-> <<RInt(1), RInt(0), RInt(0)>>,
                   estimated_progression |-> RInt(0),
                   stellest_effectiveness |-> calculate_stellest_benefit(patient_data, RInt(0)) ] ]

\* an input validation that lets every value through
check_array_unchecked(X, allow_nan) == TRUE

\* sklearn's check_array on the one row: infinities are rejected always, NaN
\* unless the estimator allows it
check_array(X, allow_nan) ==
    \A i \in 1..Len(X) : IsFinite(X[i].value) \/ (allow_nan /\ IsNaN(X[i].value))

\* predict: the estimators' own checks raise NotFittedError, a None estimator
\* AttributeError, a row that fails an estimator's validation ValueError, a
\* missing probability column IndexError.  StandardScaler.transform allows NaN,
\* the forest allows it on the builds whose trees take missing values, the
\* gradient-boosting regressor never does.
predict(self, patient_data, forest_takes_nan) ==
    IF self.scaler.state # "fitted" THEN Raised(self, "NotFittedError")
    ELSE IF ~check_array(patient_data, TRUE) THEN Raised(self, "ValueError")
    ELSE IF self.progression_classifier.state = "None" THEN Raised(self, "AttributeError")
    ELSE IF self.progression_classifier.state # "fitted" THEN Raised(self, "NotFittedError")
    ELSE IF ~check_array(patient_data, forest_takes_nan) THEN Raised(self, "ValueError")
    ELSE IF self.progression_regressor.state = "None" THEN Raised(self, "AttributeError")
    ELSE IF self.progression_regressor.state # "fitted" THEN Raised(self, "NotFittedError")
    ELSE IF ~check_array(patient_data, FALSE) THEN Raised(self, "ValueError")
    ELSE LET after == [self EXCEPT !.scaler = scaler_transform(self.scaler)]
             key == XKey(self.scaler, patient_data)
             risk_category == predict_class(self.progression_classifier, key)
             risk_probability == predict_proba(self.progression_classifier, key)
             progression_rate == predict_rate(self.progression_regressor, key)
         IN  IF Len(risk_probability) < 3 THEN Raised(after, "IndexError")
             ELSE Let(calculate_stellest_benefit(patient_data, progression_rate),
                      LAMBDA benefit :
                  IF benefit = ZeroDivisionError THEN Raised(after, "ZeroDivisionError")
                  ELSE [ self |-> after, ok |-> TRUE, err |-> "",
                         result |->
                           [ risk_category |-> risk_labels[risk_category + 1],
                             risk_score |-> risk_category,
                             risk_probabilities |-> risk_probability,
                             estimated_progression |-> RRound(progression_rate, 100),
                             stellest_effectiveness |-> benefit ] ])

\* ----------------------------------------------------------- train_models
\* X = df[feature_cols].fillna(X.median())
FeatureCols == {feature_cols[i] : i \in 1..Len(feature_cols)}
TrainingX(df) == FillNa([i \in 1..Len(df) |-> [c \in FeatureCols |-> df[i][c]]], FeatureCols)

HasNaN(X) == \E i \in 1..Len(X) : \E j \in 1..Len(feature_cols) : IsNaN(X[i][feature_cols[j]])

Trained(self, failed_at) == [self |-> self, failed_at |-> failed_at]

\* what train_models reads of df: X, y_class (lines 229-234)
training_inputs(df) ==
    Let(TrainingX(df), LAMBDA X :
        [ n |-> Len(X), has_nan |-> HasNaN(X),
          classes |-> SortedClasses([i \in 1..Len(df) |-> df[i].progression_risk.n]) ])

\* train_models from the scaler's fit on (lines 236-265), d = training_inputs(df).
\* An empty table makes the scaler's fit raise; a NaN left in X (a column
\* with no number) passes the scaler, makes the regressor's fit raise and,
\* depending on the scikit-learn build, the classifier's fit too
\* (forest_takes_nan).  A scaler whose fit raised is either left as it was or
\* reset to unfitted (scaler_reset).
train_models(self, d, forest_takes_nan, scaler_reset) ==
    LET s1 == [self EXCEPT !.scaler = Est("fitted", <<>>, d.n)]
        s2 == [s1 EXCEPT !.progression_classifier = Unfitted]
        s3 == [s2 EXCEPT !.progression_classifier = Est("fitted", d.classes, d.n)]
        s4 == [s3 EXCEPT !.progression_regressor = Unfitted]
        s5 == [s4 EXCEPT !.progression_regressor = Est("fitted", <<>>, d.n)]
        s6 == [s5 EXCEPT !.feature_importance = Est("fitted", <<>>, d.n)]
    IN  IF d.n = 0
        THEN Trained(IF scaler_reset THEN [self EXCEPT !.scaler = Unfitted] ELSE self, "scaler")
        ELSE IF d.has_nan /\ ~forest_takes_nan THEN Trained(s2, "classifier")
        ELSE IF d.has_nan THEN Trained(s4, "regressor")
        ELSE Trained(s6, "")

\* -------------------------------------------------- save_model / load_model
Keys == {"classifier", "regressor", "scaler", "feature_importance"}

\* the file stellest_model.pkl: absent, unreadable, or a pickled dict;
\* origin is the model object the dict was saved from
NoFile ==
    [ state |-> "absent", keys |-> {},
      data |-> [ scaler |-> NoneValue, feature_importance |-> NoneValue,
                 classifier |-> NoneValue, regressor |-> NoneValue ],
      origin |-> NewModel ]

CorruptFile == [NoFile EXCEPT !.state = "corrupt"]

save_model(self) ==
    [ state |-> "saved", keys |-> Keys,
      data |-> [ scaler |-> self.scaler,
                 feature_importance |-> self.feature_importance,
                 classifier |-> self.progression_classifier,
                 regressor |-> self.progression_regressor ],
      origin |-> self ]

Loaded(self, ok) == [self |-> self, ok |-> ok]

\* a load that restores the estimators and not the scaler
load_model_keeping_scaler(self, f) ==
    IF f.state \in {"absent", "corrupt"} \/ f.keys # Keys THEN Loaded(self, FALSE)
    ELSE Loaded([ progression_classifier |-> f.data.classifier,
                  progression_regressor |-> f.data.regressor,
                  scaler |-> self.scaler,
                  feature_importance |-> f.data.feature_importance ], TRUE)

\* load_model: joblib.load raises on an absent or unreadable file; a missing
\* key raises KeyError after the assignments before it
load_model(self, f) ==
    LET s1 == [self EXCEPT !.progression_classifier = f.data.classifier]
        s2 == [s1 EXCEPT !.progression_regressor = f.data.regressor]
        s3 == [s2 EXCEPT !.scaler = f.data.scaler]
        s4 == [s3 EXCEPT !.feature_importance = f.data.feature_importance]
    IN  IF f.state \in {"absent", "corrupt"} THEN Loaded(self, FALSE)
        ELSE IF "classifier" \notin f.keys THEN Loaded(self, FALSE)
        ELSE IF "regressor" \notin f.keys THEN Loaded(s1, FALSE)
        ELSE IF "scaler" \notin f.keys THEN Loaded(s2, FALSE)
        ELSE IF "feature_importance" \notin f.keys THEN Loaded(s3, FALSE)
        ELSE Loaded(s4, TRUE)

\* ------------------------------------------------- api_server.load_model
\* the global  model  of api_server: None, or the one MyopiaPredictionModel
NoModel == [isNone |-> TRUE, obj |-> NewModel]
Held(obj) == [isNone |-> FALSE, obj |-> obj]

\* the spreadsheet as a process finds it
Unreadable == [readable |-> FALSE, rows |-> <<>>]
Sheet(rows) == [readable |-> TRUE, rows |-> rows]
ExcelStates == {Unreadable} \cup {Sheet(rows) : rows \in RawTables}

\* load_and_preprocess_data on a spreadsheet: df, and what train_models reads
\* of df
Preprocessed(rows) ==
    Let(process_features(rows), LAMBDA df : [df |-> df, inputs |-> training_inputs(df)])
ProcessedTables == Let([rows \in RawTables |-> Preprocessed(rows)], LAMBDA t : t)
NoTable == [df |-> <<>>, inputs |-> [n |-> 0, has_nan |-> FALSE, classes |-> <<>>]]
\* one-row spreadsheets around the thresholds of the two label rules: the
\* scored quantities on both sides of each threshold, outdoor and screen
\* hours that make the environment factor negative (14, 3) and large (2, 50),
\* wearing hours below, inside and above the ideal
LabelRows ==
    { [RowHigh EXCEPT !.age = N(a), !.myopic_parents = StrCell(p),
                      !.re_spherical = NumCell(v), !.le_spherical = NumCell(v),
                      !.re_axial_length = NumCell(x), !.le_axial_length = NumCell(x),
                      !.screen_time = N(3), !.outdoor_time = N(2)] :
          a \in {9, 10, 12}, p \in {sNil, sMother, sBoth},
          v \in {Rat(-3, 2), RInt(-3), Rat(-7, 2)}, x \in {Rat(49, 2), RInt(25)} }
    \cup { [RowHigh EXCEPT !.age = N(a), !.screen_time = N(sc), !.outdoor_time = N(o),
                           !.wearing_time = N(w)] :
          a \in {9, 10, 12}, sc \in {3, 4, 50}, o \in {2, 3, 14}, w \in {-1, 6, 14} }
    \cup {RowHigh}
LabelTables == Let([rows \in {<<r>> : r \in LabelRows} |-> Preprocessed(rows)], LAMBDA t : t)

Read(excel) ==
    IF ~excel.readable THEN NoTable
    ELSE IF excel.rows \in DOMAIN LabelTables THEN LabelTables[excel.rows]
    ELSE ProcessedTables[excel.rows]

\* the spreadsheet rows a run read and the table it made of them
Table(rows, df) == [rows |-> rows, df |-> df]
NoSheet == Table(<<>>, <<>>)

\* what a run of load_and_preprocess_data, train_models, save_model did:
\* before/after are the model object around the train_models call
Run(self, f, ok, failed_at, before, table) ==
    [ self |-> self, file |-> f, ok |-> ok, failed_at |-> failed_at,
      before |-> before, table |-> table ]

\* df = load_and_preprocess_data(excel_path); train_models(df); save_model(path)
\* with read = Read(excel)
train_and_save(self, f, excel, read, forest_takes_nan, scaler_reset) ==
    IF ~excel.readable THEN Run(self, f, FALSE, "", self, NoSheet)
    ELSE Let(train_models(self, read.inputs, forest_takes_nan, scaler_reset), LAMBDA t :
             IF t.failed_at # "" THEN Run(t.self, f, FALSE, t.failed_at, self, Table(excel.rows, read.df))
             ELSE Run(t.self, save_model(t.self), TRUE, "", self, Table(excel.rows, read.df)))

ApiLoad(g, f, ok, how, load_failed, failed_at, before) ==
    [ model |-> g, file |-> f, ok |-> ok, how |-> how, load_failed |-> load_failed,
      failed_at |-> failed_at, before |-> before ]

\* the branch "Training new model..." on the instance stored in the global
api_train_new(self, f, excel, read, forest_takes_nan, scaler_reset, load_failed) ==
    Let(train_and_save(self, f, excel, read, forest_takes_nan, scaler_reset), LAMBDA r :
        ApiLoad(Held(r.self), r.file, r.ok, IF r.ok THEN "trained" ELSE "failed",
                load_failed, r.failed_at, r.before))

\* load_model() of api_server: the file, when it exists, is tried first and
\* any exception of the load leads to the training branch
api_load_model(g, f, excel, read, forest_takes_nan, scaler_reset) ==
    IF ~g.isNone THEN ApiLoad(g, f, TRUE, "cached", FALSE, "", g.obj)
    ELSE Let(IF f.state # "absent" THEN load_model(NewModel, f) ELSE Loaded(NewModel, FALSE),
             LAMBDA l :
                IF l.ok THEN ApiLoad(Held(l.self), f, TRUE, "loaded", FALSE, "", l.self)
                ELSE api_train_new(l.self, f, excel, read, forest_takes_nan, scaler_reset,
                                   f.state # "absent"))

\* a list whose severity keeps the sign of avg_spherical
report_features_signed(pd) ==
    [features(pd) EXCEPT ![10] = F("myopia_severity", avg_spherical(pd))]

\* the list  features  of generate_report
report_features(pd) ==
    << F("age", pd.age),
       F("age_at_diagnosis", pd.age_diagnosis),
       F("years_since_diagnosis", years_since_diagnosis(pd)),
       F("gender", RInt(gender_encoded(pd))),
       F("myopic_parents", RInt(myopic_parents_encoded(pd))),
       F("outdoor_hours", pd.outdoor_hours),
       F("screen_hours", pd.screen_hours),
       F("screen_outdoor_ratio", screen_outdoor_ratio(pd)),
       F("had_myopia_control", RInt(IF pd.had_myopia_control THEN 1 ELSE 0)),
       F("myopia_severity", myopia_severity(pd)),
       F("has_astigmatism", RInt(IF RNe(pd.re_cylinder, RInt(0)) \/ RNe(pd.le_cylinder, RInt(0))
                                 THEN 1 ELSE 0)),
       F("avg_axial_length", avg_axial_length(pd)),
       F("axial_length_abnormal", RInt(IF RGt(avg_axial_length(pd), Rat(49, 2)) THEN 1 ELSE 0)),
       F("wearing_hours", pd.wearing_hours),
       F("compliance_score", compliance_score(pd)) >>

\* one entry of  factors  (impact and description left out)
Factor(factor, score) == [factor |-> factor, score |-> score]

\* a total that stops at max_possible_score
RECURSIVE sum_scores_capped(_)
sum_scores_capped(factors) ==
    IF Len(factors) = 0 THEN RInt(0)
    ELSE Clip(RAdd(sum_scores_capped(SubSeq(factors, 1, Len(factors) - 1)),
                   factors[Len(factors)].score), RInt(0), RInt(10))

\* sum(f['score'] for f in factors)
RECURSIVE sum_scores(_)
sum_scores(factors) ==
    IF Len(factors) = 0 THEN RInt(0)
    ELSE RAdd(sum_scores(SubSeq(factors, 1, Len(factors) - 1)), factors[Len(factors)].score)

\* the dict _calculate_risk_factors returns for its list of factors
risk_factors_result(factors, total_score) ==
    [ factors |-> factors,
      total_score |-> total_score,
      max_possible_score |-> RInt(10),
      risk_percentage |-> RMul(RDiv(total_score, RInt(10)), RInt(100)) ]

\* a scoring that grows with age
age_risk_growing(age) ==
    IF RGt(age, RInt(12)) THEN Factor("Young Age", RInt(2))
    ELSE IF RGt(age, RInt(10)) THEN Factor("Age", RInt(1))
    ELSE Factor("Age", RInt(0))

\* _calculate_risk_factors: the age factor
age_risk(age) ==
    IF RLt(age, RInt(10)) THEN Factor("Young Age", RInt(2))
    ELSE IF RLt(age, RInt(12)) THEN Factor("Age", RInt(1))
    ELSE Factor("Age", RInt(0))

\* _calculate_risk_factors
calculate_risk_factors(patient_data, avg_sph, severity, axial, compliance, parents_encoded) ==
    Let(<< age_risk(patient_data.age),
           Factor("Genetics", IF parents_encoded = 2 THEN RInt(2)
                              ELSE IF parents_encoded = 1 THEN RInt(1) ELSE RInt(0)),
           Factor("Myopia Severity", IF RGt(severity, RInt(3)) THEN RInt(2)
                                     ELSE IF RGt(severity, Rat(3, 2)) THEN RInt(1) ELSE RInt(0)),
           Factor("Axial Length", IF RGt(axial, Rat(49, 2)) THEN RInt(2)
                                  ELSE IF RGt(axial, RInt(24)) THEN RInt(1) ELSE RInt(0)),
           Factor("Screen Time", IF RGt(patient_data.screen_hours, RInt(4)) THEN RInt(1)
                                 ELSE IF RGt(patient_data.screen_hours, RInt(3)) THEN Rat(1, 2)
                                 ELSE RInt(0)),
           Factor("Outdoor Time", IF RLt(patient_data.outdoor_hours, RInt(2)) THEN RInt(1)
                                  ELSE RInt(0)),
           Factor("Treatment Compliance", IF RLt(compliance, Rat(3, 4)) THEN RInt(1)
                                          ELSE IF RLt(compliance, Rat(9, 10)) THEN Rat(1, 2)
                                          ELSE RInt(0)) >>,
        LAMBDA factors : Let(sum_scores(factors), LAMBDA total_score :
            risk_factors_result(factors, total_score)))

years == <<1, 2, 3, 5>>

\* an entry whose untreated severity grows at the treated rate
timeline_entry_treated(year, annual_progression, rate, current_age, current_severity) ==
    [ year |-> year,
      projected_age |-> RRound(RAdd(current_age, RInt(year)), 10),
      severity_with_treatment |->
          RRound(RAdd(current_severity, RMul(annual_progression, RInt(year))), 100),
      severity_without_treatment |->
          RRound(RAdd(current_severity, RMul(annual_progression, RInt(year))), 100),
      saved_diopters |-> RInt(0) ]

\* one entry of the timeline; rate is annual_progression / 0.4
timeline_entry(year, annual_progression, rate, current_age, current_severity) ==
    [ year |-> year,
      projected_age |-> RRound(RAdd(current_age, RInt(year)), 10),
      severity_with_treatment |->
          RRound(RAdd(current_severity, RMul(annual_progression, RInt(year))), 100),
      severity_without_treatment |->
          RRound(RAdd(current_severity, RMul(rate, RInt(year))), 100),
      saved_diopters |->
          RRound(RSub(RAdd(current_severity, RMul(rate, RInt(year))),
                      RAdd(current_severity, RMul(annual_progression, RInt(year)))), 100) ]

\* _calculate_progression_timeline
calculate_progression_timeline(annual_progression, current_age, current_severity) ==
    Let(RDiv(annual_progression, Rat(2, 5)), LAMBDA without_treatment_rate :
        [i \in 1..Len(years) |->
            timeline_entry(years[i], annual_progression, without_treatment_rate,
                           current_age, current_severity)])

\* _calculate_comparative_stats: the population averages by age band
avg_age_severity ==
    [ g \in {"8-10", "10-12", "12-14", "14+"} |->
        CASE g = "8-10"  -> Rat(3, 2)
          [] g = "10-12" -> Rat(5, 2)
          [] g = "12-14" -> Rat(16, 5)
          [] g = "14+"   -> Rat(19, 5) ]

\* bands that own their upper bound
age_group_closed(age) ==
    IF RLe(age, RInt(10)) THEN "8-10"
    ELSE IF RLe(age, RInt(12)) THEN "10-12"
    ELSE IF RLe(age, RInt(14)) THEN "12-14"
    ELSE "14+"

\* _calculate_comparative_stats: age_group (line 137)
age_group(age) ==
    IF RLt(age, RInt(10)) THEN "8-10"
    ELSE IF RLt(age, RInt(12)) THEN "10-12"
    ELSE IF RLt(age, RInt(14)) THEN "12-14"
    ELSE "14+"

\* _calculate_comparative_stats
calculate_comparative_stats(patient_data, myopia_sev, avg_axial) ==
    Let(age_group(patient_data.age), LAMBDA group :
    Let(IF group \in DOMAIN avg_age_severity THEN avg_age_severity[group] ELSE Rat(5, 2),
        LAMBDA population_avg_severity :
    Let(RAdd(RInt(22), RMul(patient_data.age, Rat(3, 20))), LAMBDA normal_axial_length :
        [ age_group |-> group,
          population_avg_severity |-> population_avg_severity,
          patient_severity |-> myopia_sev,
          severity_difference |-> RRound(RSub(myopia_sev, population_avg_severity), 100),
          severity_percentile |->
              IF RGt(population_avg_severity, RInt(0))
              THEN RRound(RMul(RDiv(myopia_sev, RMul(population_avg_severity, RInt(2))),
                               RInt(100)), 10)
              ELSE RInt(50),
          normal_axial_length |-> RRound(normal_axial_length, 100),
          patient_axial_length |-> RRound(avg_axial, 100),
          axial_length_difference |-> RRound(RSub(avg_axial, normal_axial_length), 100),
          comparison |-> IF RGt(myopia_sev, population_avg_severity)
                         THEN "Above Average" ELSE "Below Average" ])))

\* ------------------------------------------------------------------ state
VARIABLES
    model,  \* the global model of the serving process (api_server.py line 35)
    file,   \* stellest_model.pkl
    last,   \* the last operation: what it was given, what it did and returned
    parsed  \* the last raw value handed to a field parser, and what it returned

vars == <<model, file, last, parsed>>

Op(op, ok, err, pd, fs, prediction, warm, how, load_failed, failed_at, before, after, table) ==
    [ op |-> op, ok |-> ok, err |-> err, pd |-> pd, features |-> fs,
      prediction |-> prediction, warm |-> warm, how |-> how,
      load_failed |-> load_failed, failed_at |-> failed_at,
      before |-> before, after |-> after, table |-> table,
      risk_factors |-> risk_factors_result(<<>>, NaN), progression_timeline |-> <<>>,
      comparative_stats |-> <<>> ]

NoOp(op) == Op(op, TRUE, "", BasePatient, <<>>, NoPrediction, FALSE, "", FALSE, "",
               NewModel, NewModel, NoSheet)

\* no cell parsed yet
NoParse == [parser |-> "", cell |-> Missing, value |-> NaN]

Init ==
    /\ model = NoModel
    /\ file = NoFile
    /\ last = NoOp("init")
    /\ parsed = NoParse

\* the builds and outcomes that differ on this spreadsheet
ForestBuilds(read) == IF read.inputs.has_nan THEN BOOLEAN ELSE {FALSE}
ScalerResets(excel, read) == IF excel.readable /\ read.inputs.n = 0 THEN BOOLEAN ELSE {FALSE}

\* a run of the training script (model.py __main__): a new model, the table,
\* train_models, save_model; an exception ends the process
Script(Sheets) ==
    \E excel \in Sheets :
      \E read \in {Read(excel)} :
        \E forest_takes_nan \in ForestBuilds(read), scaler_reset \in ScalerResets(excel, read) :
          \E r \in {train_and_save(NewModel, file, excel, read, forest_takes_nan, scaler_reset)} :
            /\ file' = r.file
            /\ last' = Op("script", r.ok, "", BasePatient, <<>>, NoPrediction, FALSE, "",
                          FALSE, r.failed_at, r.before, r.self, r.table)
            /\ UNCHANGED <<model, parsed>>

\* the file is damaged, or replaced by a dict of another layout
DamageFile ==
    /\ file.state = "saved"
    /\ \/ file' = CorruptFile
       \/ \E k \in Keys : file' = [file EXCEPT !.state = "mismatched", !.keys = Keys \ {k}]
    /\ last' = NoOp("damage")
    /\ UNCHANGED <<model, parsed>>

\* the builds that differ on this row
PredictBuilds(x) == IF \E i \in 1..Len(x) : IsNaN(x[i].value) THEN BOOLEAN ELSE {FALSE}

\* the feature list of each handler
handler_features(op, pd) == IF op = "api_predict" THEN features(pd) ELSE report_features(pd)

\* the analyses a handler adds to a prediction (lines 248-250, 330-332)
Analysed(o) ==
    IF ~o.ok THEN o
    ELSE [o EXCEPT
            !.risk_factors =
                calculate_risk_factors(o.pd, avg_spherical(o.pd), o.features[10].value,
                                       o.features[12].value, o.features[15].value,
                                       myopic_parents_encoded(o.pd)),
            !.progression_timeline =
                calculate_progression_timeline(o.prediction.estimated_progression, o.pd.age,
                                               o.features[10].value),
            !.comparative_stats =
                calculate_comparative_stats(o.pd, o.features[10].value, o.features[12].value)]

\* the rest of a handler once load_model() has returned (l) or raised: the
\* feature list, model_instance.predict; any exception becomes HTTP 500
Respond(op, pd, l, warm) ==
    /\ file' = l.file
    /\ UNCHANGED parsed
    /\ IF ~l.ok
       THEN /\ model' = l.model
            /\ last' = Op(op, FALSE, "load_model", pd, <<>>, NoPrediction, warm, l.how,
                          l.load_failed, l.failed_at, l.before, l.model.obj, NoSheet)
       ELSE IF ratio_faults(pd)
       THEN /\ model' = l.model
            /\ last' = Op(op, FALSE, "ZeroDivisionError", pd, <<>>, NoPrediction, warm, l.how,
                          l.load_failed, l.failed_at, l.before, l.model.obj, NoSheet)
       ELSE \E x \in {handler_features(op, pd)} :
              \E forest_takes_nan \in PredictBuilds(x) :
              \E r \in {predict(l.model.obj, x, forest_takes_nan)} :
                /\ model' = Held(r.self)
                /\ last' = Analysed(Op(op, r.ok, r.err, pd, x, r.result, warm, l.how,
                                       l.load_failed, l.failed_at, l.before, l.model.obj,
                                       NoSheet))

\* a request that finds the global set
Warm(op, Inputs) ==
    /\ ~model.isNone
    /\ \E pd \in Inputs :
         \E l \in {api_load_model(model, file, Unreadable, NoTable, FALSE, FALSE)} :
           Respond(op, pd, l, TRUE)

\* the first request of the process: load_model() builds the global
Cold(op, Inputs, Sheets) ==
    /\ model.isNone
    /\ \E pd \in Inputs, excel \in Sheets :
         \E read \in {Read(excel)} :
           \E forest_takes_nan \in ForestBuilds(read), scaler_reset \in ScalerResets(excel, read) :
             \E l \in {api_load_model(model, file, excel, read, forest_takes_nan, scaler_reset)} :
               Respond(op, pd, l, FALSE)

\* bodies PatientData accepts (its float fields take nan and inf) whose
\* feature list holds a NaN or an infinity
MalformedRequests ==
    { [BasePatient EXCEPT !.wearing_hours = NaN],
      [BasePatient EXCEPT !.age = Inf],
      [BasePatient EXCEPT !.re_spherical = NegInf] }

\* the request bodies of the life-cycle specification
Requests ==
    { BasePatient,
      [BasePatient EXCEPT !.age = RInt(13), !.gender = sF, !.had_myopia_control = TRUE,
                          !.outdoor_hours = RInt(3), !.screen_hours = RInt(0),
                          !.le_cylinder = RInt(0), !.re_axial_length = RInt(23)] }
    \cup MalformedRequests

\* POST /api/predict
ApiPredict ==
    \/ Warm("api_predict", Requests)
    \/ Cold("api_predict", Requests, ExcelStates)

\* POST /api/generate-report
ApiGenerateReport ==
    \/ Warm("api_generate_report", Requests)
    \/ Cold("api_generate_report", Requests, ExcelStates)

Next ==
    \/ Script(ExcelStates)
    \/ DamageFile
    \/ ApiPredict
    \/ ApiGenerateReport

Spec == Init /\ [][Next]_vars

\* ------------------------------------------ feature-derivation specification
\* the serving process and the training script on one spreadsheet, under
\* every request body of PatientInputs
LongestHead == Let(AllRows, LAMBDA rows :
                   SubSeq(rows, 1, IF MaxRows < Len(rows) THEN MaxRows ELSE Len(rows)))
FeatureSheets == {Unreadable, Sheet(LongestHead)}

NextFeatures ==
    \/ Script(FeatureSheets)
    \/ Warm("api_predict", PatientInputs)
    \/ Cold("api_predict", PatientInputs, FeatureSheets)
    \/ Warm("api_generate_report", PatientInputs)
    \/ Cold("api_generate_report", PatientInputs, FeatureSheets)

SpecFeatures == Init /\ [][NextFeatures]_vars

\* the serving process under the request bodies of the risk analyses
NextScorer ==
    \/ Warm("api_predict", ScoredInputs)
    \/ Cold("api_predict", ScoredInputs, {Sheet(LongestHead)})
    \/ Warm("api_generate_report", ScoredInputs)

SpecScorer == Init /\ [][NextScorer]_vars

\* ------------------------------------------------------ the training labels
\* the training script on each one-row spreadsheet of LabelRows
SpecLabels == Init /\ [][Script({Sheet(<<r>>) : r \in LabelRows})]_vars

\* ------------------------------------------------------- the field parsers
\* texts found in the cells of the spreadsheet: well-formed values of each
\* column, and text no parser expects
CellTexts ==
    { <<"9", " ", "Y", "r", "s">>,
      <<"9", "Y", "R", "S">>,
      <<"1", "0", ".", "5", " ", "y", "r">>,
      <<"1", "2", " ", "y", "r", "s", " ", "3", " ", "m", "t", "h", "s">>,
      <<"Y", "r", "s">>,
      <<"a", "b", "c">>,
      <<>>,
      <<" ", "7", " ">>,
      <<"+", "3">>,
      <<"4", ".">>,
      <<".", "5">>,
      <<"-", "-", "4">>,
      <<"1", ".", "2", ".", "3">>,
      <<"2", " ", "h", "r", "s">>,
      <<"1", "-", "2", " ", "h", "r", "s">>,
      <<"1", ".", "5", " ", "h", "r">>,
      <<"h", "r">>,
      <<"-", "2", " ", "h", "r", "s">>,
      <<"2", " ", "h", "o", "u", "r", "s">>,
      <<"-", "4", ".", "0", "0", " ", "D", "S">>,
      <<"-", "4", ".", "0", "0", "D", "S">>,
      <<"-", "0", ".", "5", "0", " ", "D", "C", " ", "x", " ", "1", "8", "0">>,
      <<"-", "4", ".", "0", "0", "D", "S", "/", "-", "0", ".", "5", "0", "D", "C">>,
      <<"D", "S">>,
      <<"P", "l", "a", "n", "o">>,
      <<"N", "A", "N">>,
      <<"n", "a", "n", " ", "D", "S">>,
      <<"I", "n", "f">>,
      <<"-", "i", "n", "f">>,
      <<"2", "5", ".", "1", " ", "m", "m">>,
      <<"2", "4", "M", "M">>,
      <<"m", "m">>,
      <<"N", "o", "n", "e">>,
      <<"n", "o", "n", "e">>,
      <<"o", "n", "e">>,
      <<"B", "o", "t", "h">>,
      <<"b", "o", "t", "h">>,
      <<"M", "o", "t", "h", "e", "r">>,
      <<"f", "a", "t", "h", "e", "r">>,
      <<"F", "a", "t", "h", "e", "r", ",", " ", "M", "o", "t", "h", "e", "r">>,
      <<"M", "o", "t", "h", "e", "r", ",", " ", "F", "a", "t", "h", "e", "r">>,
      <<"M", "o", "t", "h", "e", "r", " ", "a", "n", "d", " ", "F", "a", "t", "h", "e", "r">>,
      <<"N", "i", "l">>,
      <<"N", "o">> }

\* raw values: missing, numbers, text
RawCells ==
    { Missing, NumCell(NaN), NumCell(RInt(0)), NumCell(RInt(7)), NumCell(RInt(-4)),
      NumCell(Rat(1, 2)), NumCell(Rat(-1, 4)), NumCell(Rat(97, 4)) }
    \cup { StrCell(t) : t \in CellTexts }

\* one parser of _process_features applied to one raw value
ParseCell ==
    \E parser \in {column_parser[c] : c \in DOMAIN column_parser}, cell \in RawCells :
        /\ parsed' = [parser |-> parser, cell |-> cell, value |-> apply(parser, cell)]
        /\ UNCHANGED <<model, file, last>>

SpecParsers == Init /\ [][ParseCell]_vars

\* ------------------------------------------------------------- properties
RequestOps == {"api_predict", "api_generate_report"}

\* x clamped to [0, 1]
Clamp01(x) == IF RLt(x, RInt(0)) THEN RInt(0) ELSE IF RGt(x, RInt(1)) THEN RInt(1) ELSE x

\* the parsers named _extract_* and _encode_*
FieldParsers ==
    { "_extract_age", "_extract_hours", "_extract_diopters", "_extract_axial_length",
      "_encode_myopic_parents" }
IsLetter(c) == \E i \in 1..26 : Upper[i] = c \/ Lower[i] = c
\* the word w stands in u with no letter next to it
HasToken(u, w) ==
    \E i \in 1..(Len(u) - Len(w) + 1) :
        /\ SubSeq(u, i, i + Len(w) - 1) = w
        /\ (i = 1 \/ ~IsLetter(u[i - 1]))
        /\ (i + Len(w) - 1 = Len(u) \/ ~IsLetter(u[i + Len(w)]))
\* the documented encoding of a cell: 2 for "both" or both parents named, 1 for
\* one parent named or the token "one", 0 otherwise
DocumentedEncoding(cell) ==
    IF cell.t # "str" THEN 0
    ELSE LET u == StrUpper(cell.s)
             mother == Contains(u, StrUpper(sMother))
             father == Contains(u, StrUpper(sFather))
         IN  IF Contains(u, StrUpper(sBoth)) \/ (mother /\ father) THEN 2
             ELSE IF mother \/ father \/ HasToken(u, StrUpper(sOne)) THEN 1
             ELSE 0
\* the total the scorer gives a request body
ScoreOf(pd) ==
    calculate_risk_factors(pd, avg_spherical(pd), myopia_severity(pd), avg_axial_length(pd),
                           compliance_score(pd), myopic_parents_encoded(pd)).total_score
\* the score the training rule gives the same patient
RuleOf(pd) ==
    rule_score([ age |-> pd.age, myopic_parents |-> RInt(myopic_parents_encoded(pd)),
                 screen_hours |-> pd.screen_hours, outdoor_hours |-> pd.outdoor_hours,
                 myopia_severity |-> myopia_severity(pd),
                 avg_axial_length |-> avg_axial_length(pd) ])
\* pd with one quantity of the training rule moved to another value
MovedOne(pd) ==
    { [pd EXCEPT !.age = a] : a \in Scored.ages }
    \cup { [pd EXCEPT !.myopic_parents = p] : p \in {sNone, sOne, sBoth} }
    \cup { [pd EXCEPT !.screen_hours = v] : v \in Scored.hours }
    \cup { [pd EXCEPT !.outdoor_hours = v] : v \in Scored.hours }
    \cup { [pd EXCEPT !.re_spherical = RNeg(v), !.le_spherical = RNeg(v)] : v \in Scored.severities }
    \cup { [pd EXCEPT !.re_axial_length = v, !.le_axial_length = v] : v \in Scored.axial_lengths }
\* pd younger, or more myopic, or with longer eyes
MovedUp(pd) ==
    { [pd EXCEPT !.age = a] : a \in {b \in Scored.ages : RLe(b, pd.age)} }
    \cup { [pd EXCEPT !.re_spherical = RNeg(v), !.le_spherical = RNeg(v)] :
                v \in {w \in Scored.severities : RGe(w, myopia_severity(pd))} }
    \cup { [pd EXCEPT !.re_axial_length = v, !.le_axial_length = v] :
                v \in {w \in Scored.axial_lengths : RGe(w, avg_axial_length(pd))} }
Scores(rf) == [i \in 1..Len(rf.factors) |-> rf.factors[i].score]
Answered == last.op \in RequestOps /\ last.ok
\* the severity the projector's formulas give after  year  years
Projected(annual_progression, current_severity, year) ==
    RAdd(current_severity, RMul(annual_progression, RInt(year)))
\* x is y rounded to two decimals
RoundedTo2(x, y) ==
    /\ RLe(RAbs(RSub(x, y)), Rat(1, 200))
    /\ RMul(x, RInt(100)).d = 1
\* x is y rounded to a multiple of 1/scale
RoundedTo(x, y, scale) ==
    /\ RLe(RAbs(RSub(x, y)), Rat(1, 2 * scale))
    /\ RMul(x, RInt(scale)).d = 1
\* the band and the constant stated for an age
InBand(age, group, average) ==
    /\ RLt(age, RInt(10)) => group = "8-10" /\ average = Rat(3, 2)
    /\ RGe(age, RInt(10)) /\ RLt(age, RInt(12)) => group = "10-12" /\ average = Rat(5, 2)
    /\ RGe(age, RInt(12)) /\ RLt(age, RInt(14)) => group = "12-14" /\ average = Rat(16, 5)
    /\ RGe(age, RInt(14)) => group = "14+" /\ average = Rat(19, 5)
\* the percentile and the normal axial length the stated formulas give
Percentile(severity, average) ==
    IF average = RInt(0) THEN RInt(50)
    ELSE RMul(RDiv(severity, RMul(RInt(2), average)), RInt(100))
NormalAxial(age) == RAdd(RInt(22), RMul(Rat(3, 20), age))
\* the rate the regressor gave the last request, before any rounding
RawRate == predict_rate(last.after.progression_regressor,
                        XKey(last.after.scaler, last.features))
\* the untreated rate and the reduction the stated formulas give
Without(rate, compliance) ==
    IF RGt(compliance, RInt(0)) THEN RDiv(rate, RMul(Rat(2, 5), compliance))
    ELSE RDiv(rate, Rat(2, 5))
Reduction(without, with) ==
    IF RGt(without, RInt(0)) THEN RMul(RDiv(RSub(without, with), without), RInt(100))
    ELSE RInt(0)
\* the rule score and the category stated for a row of the training table
StatedScore(r) ==
      2 * B(RLt(r.age, RInt(10)))
    + 1 * B(RLe(RInt(10), r.age) /\ RLt(r.age, RInt(12)))
    + r.myopic_parents.n
    + 1 * B(RGt(r.screen_hours, RInt(3)))
    - 1 * B(RGt(r.outdoor_hours, RInt(2)))
    + 2 * B(RGt(r.myopia_severity, RInt(3)))
    + 1 * B(RLt(Rat(3, 2), r.myopia_severity) /\ RLe(r.myopia_severity, RInt(3)))
    + 2 * B(RGt(r.avg_axial_length, Rat(49, 2)))
StatedCategory(score) == IF score <= 2 THEN 0 ELSE IF score \in {3, 4} THEN 1 ELSE 2
\* the factors and the rate stated for a row of the training table
StatedEnvironment(r) ==
    RSub(RAdd(RInt(1), RDiv(r.screen_hours, RInt(10))), RDiv(r.outdoor_hours, RInt(10)))
StatedRate(r) ==
    RMul(RMul(RMul(RMul(Rat(1, 2),
                        IF RLt(r.age, RInt(10)) THEN Rat(3, 2)
                        ELSE IF RLt(r.age, RInt(12)) THEN Rat(6, 5) ELSE Rat(4, 5)),
                   RAdd(RInt(1), RMul(Rat(1, 5), r.myopic_parents))),
              StatedEnvironment(r)),
         RMul(Rat(2, 5), r.compliance_score))
Clamp02(x) == IF RLt(x, RInt(0)) THEN RInt(0) ELSE IF RGt(x, RInt(2)) THEN RInt(2) ELSE x
\* what /api/predict computes for a request body on a model: its feature
\* list, the outcome of predict and the three analyses
PredictAnswer(pd, self) ==
    LET x == features(pd)
        r == predict(self, x, FALSE)
    IN  [ features |-> x, ok |-> r.ok, prediction |-> r.result,
          risk_factors |->
              calculate_risk_factors(pd, avg_spherical(pd), myopia_severity(pd),
                                     avg_axial_length(pd), compliance_score(pd),
                                     myopic_parents_encoded(pd)),
          progression_timeline |->
              calculate_progression_timeline(r.result.estimated_progression, pd.age,
                                             myopia_severity(pd)),
          comparative_stats |->
              calculate_comparative_stats(pd, myopia_severity(pd), avg_axial_length(pd)) ]
AllFinite(fs) == \A i \in 1..Len(fs) : fs[i].value.k = "num" /\ fs[i].value.d # 0
InUnit(x) == RGe(x, RInt(0)) /\ RLe(x, RInt(1))
InRateRange(x) == RGe(x, RInt(0)) /\ RLe(x, RInt(2))

\* C1: the feature list /api/predict hands to predict has exactly 15 elements
\* and names, position by position, the feature of train_models' feature_cols.
C1_FeatureOrder ==
    (last.op = "api_predict" /\ last.features # <<>>) =>
        /\ Len(last.features) = 15
        /\ Len(feature_cols) = 15
        /\ \A i \in 1..15 : last.features[i].name = feature_cols[i]

\* C1 witness: /api/predict built its 15 features and answered.
C1_Answered == last.op = "api_predict" /\ last.ok /\ Len(last.features) = 15

\* C2: for each documented value of myopic_parents and its other letter-case
\* spellings, /api/predict puts in the myopic_parents position the value the
\* training encoder _encode_myopic_parents gives for the same string.
C2_ParentsAsTraining ==
    (last.op = "api_predict" /\ last.features # <<>>
        /\ last.pd.myopic_parents \in DocumentedParents) =>
        last.features[5].value = RInt(encode_myopic_parents(StrCell(last.pd.myopic_parents)))

\* C3: for every numeric wearing_hours, negative and above 12 included, the
\* compliance_score of a request and of a training row is wearing_hours / 12
\* clamped to [0, 1], hence within [0, 1].
C3_ComplianceClamped ==
    /\ (last.op \in RequestOps /\ last.features # <<>>) =>
          /\ last.features[15].value = Clamp01(RDiv(last.pd.wearing_hours, RInt(12)))
          /\ InUnit(last.features[15].value)
    /\ \A i \in 1..Len(last.table.df) :
          last.table.rows[i].wearing_time.t = "num" =>
             /\ last.table.df[i].compliance_score
                  = Clamp01(RDiv(last.table.rows[i].wearing_time.v, RInt(12)))
             /\ InUnit(last.table.df[i].compliance_score)

\* C3 witness: a request with wearing_hours above 12 was answered with
\* compliance_score 1.
C3_AboveIdeal ==
    /\ last.op = "api_predict" /\ last.ok
    /\ RGt(last.pd.wearing_hours, RInt(12))
    /\ last.features[15].value = RInt(1)

\* C4: the progression rate a request returns (estimated_progression, and
\* with_stellest of the benefit estimate) lies in [0, 2] whatever the
\* regressor outputs.
C4_RateInRange ==
    (last.op \in RequestOps /\ last.ok) =>
        /\ InRateRange(last.prediction.estimated_progression)
        /\ InRateRange(last.prediction.stellest_effectiveness.with_stellest)

\* C5: on a model fitted by train_models, whichever risk categories its
\* training labels held, predict returns without error one of the three risk
\* labels and three probabilities that sum to 1.
C5_ThreeProbabilities ==
    (/\ last.op \in RequestOps /\ last.features # <<>> /\ last.how \in {"trained", "loaded"}
     /\ AllFinite(last.features)) =>
        /\ last.ok
        /\ \E i \in 1..Len(risk_labels) : last.prediction.risk_category = risk_labels[i]
        /\ Len(last.prediction.risk_probabilities) = 3
        /\ RAdd(RAdd(last.prediction.risk_probabilities[1],
                     last.prediction.risk_probabilities[2]),
                last.prediction.risk_probabilities[3]) = RInt(1)

\* C6: once the global model is set, a request (/api/predict or
\* /api/generate-report) leaves its scaler, classifier and regressor as they
\* were.
C6_InferenceReadsOnly ==
    [][(~model.isNone /\ last'.op \in RequestOps) => Triple(model'.obj) = Triple(model.obj)]_vars

\* C6 witness: a request that found the global set was answered by a fitted
\* model.
C6_WarmAnswered == last.warm /\ last.ok /\ IsFitted(model.obj)

\* C7: predict on a model neither fitted nor loaded raises and returns no
\* prediction.
C7_UnfittedRaises ==
    (last.op \in RequestOps /\ last.features # <<>> /\ Triple(last.after) = Triple(NewModel)) =>
        /\ ~last.ok
        /\ last.err = "NotFittedError"
        /\ last.prediction = NoPrediction

\* C7 witness: a request reached predict on the model as __init__ left it.
C7_FreshModelAsked ==
    /\ last.op \in RequestOps /\ last.features # <<>>
    /\ Triple(last.after) = Triple(NewModel)
    /\ ~last.ok

\* C8: a request whose load of the persisted state raised (a corrupted file,
\* a missing entry) fails: it is not answered by a model trained in place of
\* the one that could not be loaded.
C8_LoadFailureSurfaces ==
    (last.op \in RequestOps /\ last.load_failed) => ~last.ok

\* C9: a model loaded from the file save_model wrote holds the scaler,
\* classifier and regressor of the fitted model that was saved, and predicts
\* the same risk category and progression rate for every request.
C9_RoundTrip ==
    (last.op \in RequestOps /\ last.how = "loaded") =>
        /\ IsFitted(file.origin)
        /\ Triple(last.after) = Triple(file.origin)
        /\ \A pd \in Requests :
             \E a \in {predict(last.after, features(pd), FALSE)}, b \in {predict(file.origin, features(pd), FALSE)} :
                /\ a.ok = b.ok
                /\ a.result.risk_category = b.result.risk_category
                /\ a.result.estimated_progression = b.result.estimated_progression

\* C9 witness: a process loaded the saved file and answered with the loaded
\* model.
C9_LoadedAnswered ==
    last.op \in RequestOps /\ last.how = "loaded" /\ last.ok /\ file.state = "saved"

\* C10: when train_models raises, the scaler, classifier and regressor of the
\* model are the ones it held before the call.
C10_FailedTrainingKeepsTriple ==
    last.failed_at # "" => Triple(last.after) = Triple(last.before)

\* C11: a request whose feature list holds a NaN or an infinity fails with an
\* error, and no prediction is returned for it.
C11_MalformedRowFails ==
    (last.op \in RequestOps /\ last.features # <<>> /\ ~AllFinite(last.features)) =>
        /\ ~last.ok
        /\ last.prediction = NoPrediction

\* C11 witness: a fitted model was asked about a row with a NaN or an infinity
\* and raised ValueError.
C11_MalformedRowAsked ==
    /\ last.op \in RequestOps /\ last.features # <<>> /\ ~AllFinite(last.features)
    /\ IsFitted(last.after)
    /\ last.err = "ValueError"

\* C12: each field parser (_extract_age, _extract_hours, _extract_diopters,
\* _extract_axial_length, _encode_myopic_parents) returns a number or NaN for
\* every raw value, text, number or missing; it never raises.
C12_ParsersTotal ==
    parsed.parser \in FieldParsers => parsed.value.k \in {"num", "nan"}

\* C12 witness: _extract_axial_length was handed text that is no number and
\* returned NaN.
C12_UnparsableParsed ==
    /\ parsed.parser = "_extract_axial_length"
    /\ parsed.cell = StrCell(<<"a", "b", "c">>)
    /\ IsNaN(parsed.value)

\* C13: _encode_myopic_parents returns, whatever the letter case, 2 for "both"
\* or for text naming both parents, 1 for text naming one parent or holding
\* the token "one", and 0 for every other value, missing ones included.
C13_ParentsEncoding ==
    parsed.parser = "_encode_myopic_parents" =>
        parsed.value = RInt(DocumentedEncoding(parsed.cell))

\* C14: _extract_diopters never returns NaN.
C14_DioptersNeverMissing ==
    parsed.parser = "_extract_diopters" => ~IsNaN(parsed.value)

\* C15: no request faults with a division by zero when it computes
\* screen_outdoor_ratio, and screen_hours = 0 with outdoor_hours = 0 gives a
\* ratio of exactly 0.
C15_RatioNeverFaults ==
    last.op \in RequestOps =>
        /\ last.err # "ZeroDivisionError"
        /\ (/\ last.features # <<>>
            /\ last.pd.screen_hours = RInt(0) /\ last.pd.outdoor_hours = RInt(0)) =>
               last.features[8].value = RInt(0)

\* C16: the total_score of a response is the sum of its seven factor scores
\* and is at most max_possible_score = 10, so risk_percentage is at most 100.
C16_TotalWithinMaximum ==
    Answered =>
        /\ Len(last.risk_factors.factors) = 7
        /\ last.risk_factors.total_score = sum_scores(last.risk_factors.factors)
        /\ last.risk_factors.max_possible_score = RInt(10)
        /\ RLe(last.risk_factors.total_score, last.risk_factors.max_possible_score)
        /\ RLe(last.risk_factors.risk_percentage, RInt(100))

\* C17: moving one quantity of the training rule (age, parental myopia, screen
\* hours, outdoor hours, severity, axial length) changes the scorer's total
\* exactly when it changes the score of _calculate_progression_risk: the two
\* have the same thresholds.
C17_SameThresholds ==
    Answered =>
        \A pd \in MovedOne(last.pd) :
            (ScoreOf(pd) # last.risk_factors.total_score) <=> (RuleOf(pd) # RuleOf(last.pd))

\* C18: a patient who differs from the one of a response only by being
\* younger, or more myopic, or having longer eyes, is scored at least the
\* total of that response.
C18_ScoreMonotone ==
    Answered =>
        \A pd \in MovedUp(last.pd) : RGe(ScoreOf(pd), last.risk_factors.total_score)

\* C18 witness: a response for a patient between the two age thresholds, whose
\* total is below that of a younger patient.
C18_MiddleAgeScored ==
    /\ Answered
    /\ last.pd.age = RInt(11)
    /\ \E pd \in MovedUp(last.pd) : RGt(ScoreOf(pd), last.risk_factors.total_score)

\* C19 as stated: the scenario patient (age 9, both parents, outdoor 1, screen
\* 5, severity 4, axial length 25, compliance 0.5) is scored 2, 2, 2, 2, 1, 1
\* and 0.5, a total of 10.5.
C19_ScenarioTotalStated ==
    (Answered /\ last.pd = BasePatient) =>
        /\ Scores(last.risk_factors) =
               <<RInt(2), RInt(2), RInt(2), RInt(2), RInt(1), RInt(1), Rat(1, 2)>>
        /\ last.risk_factors.total_score = Rat(21, 2)

\* C19 amended: the scenario patient is scored 2 (age), 2 (genetics), 2
\* (severity), 2 (axial length), 1 (screen), 1 (outdoor) and 1 (compliance,
\* 0.5 being below 0.75), a total of 11.
C19_ScenarioTotal ==
    (Answered /\ last.pd = BasePatient) =>
        /\ Scores(last.risk_factors) =
               <<RInt(2), RInt(2), RInt(2), RInt(2), RInt(1), RInt(1), RInt(1)>>
        /\ last.risk_factors.total_score = RInt(11)

\* C19 witness: the scenario patient was answered, with compliance 0.5.
C19_ScenarioAnswered ==
    /\ Answered /\ last.pd = BasePatient
    /\ last.features[15].value = Rat(1, 2)
    /\ last.features[10].value = RInt(4) /\ last.features[12].value = RInt(25)

\* C20 as stated: the timeline of a response has four entries, for years 1,
\* 2, 3, 5 in that order, and in each severity_with_treatment is exactly
\* current_severity + annual_progression * year and
\* severity_without_treatment exactly current_severity +
\* (annual_progression / 0.4) * year.
C20_TimelineStated ==
    Answered =>
        /\ Len(last.progression_timeline) = 4
        /\ \A i \in 1..4 :
             /\ last.progression_timeline[i].year = <<1, 2, 3, 5>>[i]
             /\ last.progression_timeline[i].severity_with_treatment =
                    Projected(last.prediction.estimated_progression,
                              last.features[10].value, <<1, 2, 3, 5>>[i])
             /\ last.progression_timeline[i].severity_without_treatment =
                    Projected(RDiv(last.prediction.estimated_progression, Rat(2, 5)),
                              last.features[10].value, <<1, 2, 3, 5>>[i])

\* C20 amended: the timeline has four entries, for years 1, 2, 3, 5 in that
\* order, and in each severity_with_treatment and severity_without_treatment
\* are those two values rounded to two decimals.
C20_Timeline ==
    Answered =>
        /\ Len(last.progression_timeline) = 4
        /\ \A i \in 1..4 :
             /\ last.progression_timeline[i].year = <<1, 2, 3, 5>>[i]
             /\ RoundedTo2(last.progression_timeline[i].severity_with_treatment,
                           Projected(last.prediction.estimated_progression,
                                     last.features[10].value, <<1, 2, 3, 5>>[i]))
             /\ RoundedTo2(last.progression_timeline[i].severity_without_treatment,
                           Projected(RDiv(last.prediction.estimated_progression, Rat(2, 5)),
                                     last.features[10].value, <<1, 2, 3, 5>>[i]))

\* C20 witness: a response whose first-year severity without treatment is not
\* a number of hundredths before rounding.
C20_RoundedEntry ==
    /\ Answered
    /\ RNe(last.prediction.estimated_progression, RInt(0))
    /\ last.progression_timeline[1].severity_without_treatment #
           Projected(RDiv(last.prediction.estimated_progression, Rat(2, 5)),
                     last.features[10].value, 1)

\* C21: in every entry of the timeline of a response, saved_diopters equals
\* severity_without_treatment minus severity_with_treatment of that entry,
\* all three as reported.
C21_SavedIsDifference ==
    Answered =>
        \A i \in 1..Len(last.progression_timeline) :
            last.progression_timeline[i].saved_diopters =
                RSub(last.progression_timeline[i].severity_without_treatment,
                     last.progression_timeline[i].severity_with_treatment)

\* C22 as stated: the comparative statistics of a response name the band of
\* the age with its constant (below 10: "8-10" / 1.5, below 12: "10-12" /
\* 2.5, below 14: "12-14" / 3.2, else "14+" / 3.8), and severity_difference
\* is exactly severity - band average, severity_percentile exactly severity /
\* (2 * band average) * 100, normal_axial_length exactly 22.0 + 0.15 * age and
\* axial_length_difference exactly avg_axial_length - normal_axial_length.
C22_ComparativeStated ==
    Answered =>
        LET cs == last.comparative_stats
        IN  /\ InBand(last.pd.age, cs.age_group, cs.population_avg_severity)
            /\ cs.severity_difference =
                   RSub(last.features[10].value, cs.population_avg_severity)
            /\ cs.severity_percentile =
                   Percentile(last.features[10].value, cs.population_avg_severity)
            /\ cs.normal_axial_length = NormalAxial(last.pd.age)
            /\ cs.axial_length_difference =
                   RSub(last.features[12].value, NormalAxial(last.pd.age))

\* C22 amended: the band and its constant are as stated, and
\* severity_difference, normal_axial_length and axial_length_difference are
\* the stated values rounded to two decimals, severity_percentile the stated
\* value rounded to one decimal.
C22_Comparative ==
    Answered =>
        LET cs == last.comparative_stats
        IN  /\ InBand(last.pd.age, cs.age_group, cs.population_avg_severity)
            /\ RoundedTo(cs.severity_difference,
                         RSub(last.features[10].value, cs.population_avg_severity), 100)
            /\ RoundedTo(cs.severity_percentile,
                         Percentile(last.features[10].value, cs.population_avg_severity), 10)
            /\ RoundedTo(cs.normal_axial_length, NormalAxial(last.pd.age), 100)
            /\ RoundedTo(cs.axial_length_difference,
                         RSub(last.features[12].value, NormalAxial(last.pd.age)), 100)

\* C22 witness: a response for an age on the lower bound of the band
\* "12-14" whose percentile is not a number of tenths before rounding.
C22_RoundedPercentile ==
    /\ Answered
    /\ last.pd.age = RInt(12)
    /\ last.comparative_stats.age_group = "12-14"
    /\ last.comparative_stats.severity_percentile #
           Percentile(last.features[10].value, Rat(16, 5))

\* C23: a request whose features are built and whose model is fitted is
\* answered whatever its compliance_score (the last feature) is: no
\* compliance value makes the benefit estimate divide by zero; and the
\* answer's without_stellest is rate / (0.4 * compliance_score) for a
\* positive compliance_score and rate / 0.4 for 0, its reduction_percentage
\* (without - with) / without * 100 for a positive without and 0 otherwise
\* (as reported: to two decimals and to one).
C23_BenefitNeverDivides ==
    /\ last.op \in RequestOps /\ Len(last.features) = 15 =>
           last.err # "ZeroDivisionError"
    /\ Answered =>
           LET without == Without(RawRate, last.features[15].value)
           IN  /\ RoundedTo(last.prediction.stellest_effectiveness.without_stellest,
                            without, 100)
               /\ RoundedTo(last.prediction.stellest_effectiveness.reduction_percentage,
                            Reduction(without, RawRate), 10)

\* C24: the risk label of every row of a training table is the category of
\* the rule score of that row: 0 for a score of at most 2, 1 for 3 or 4, 2
\* for 5 or more; the row of age 9, both parents, outdoor 1, screen 5,
\* severity 4.0, axial length 25.0 is labelled 2 (High).
C24_RiskLabel ==
    last.op = "script" =>
        \A i \in 1..Len(last.table.df) :
            LET r == last.table.df[i]
            IN  /\ r.progression_risk = RInt(StatedCategory(StatedScore(r)))
                /\ ( /\ r.age = RInt(9) /\ r.myopic_parents = RInt(2)
                     /\ r.outdoor_hours = RInt(1) /\ r.screen_hours = RInt(5)
                     /\ r.myopia_severity = RInt(4) /\ r.avg_axial_length = RInt(25) )
                   => r.progression_risk = RInt(2)

\* C24 witness: a table whose row has score 4, the upper edge of Medium, and
\* is labelled 1.
C24_LabelledAtEdge ==
    /\ last.op = "script"
    /\ Len(last.table.df) = 1
    /\ StatedScore(last.table.df[1]) = 4
    /\ last.table.df[1].progression_risk = RInt(1)

\* C25: the progression-rate label of every row of a training table is 0.5
\* * age_factor * genetic_factor * environment_factor * treatment_factor of
\* that row clamped to [0, 2], and so lies in [0, 2].
C25_RateLabel ==
    last.op = "script" =>
        \A i \in 1..Len(last.table.df) :
            /\ last.table.df[i].estimated_progression = Clamp02(StatedRate(last.table.df[i]))
            /\ InRateRange(last.table.df[i].estimated_progression)

\* C26: in every row of the table the training script builds, rows with
\* missing cells included, years_since_diagnosis = age - age_diagnosis,
\* axial_length_abnormal = 1 exactly when avg_axial_length > 24.5,
\* compliance_score = clamp(wearing_hours / 12, 0, 1), and progression_risk and
\* estimated_progression are the label rules applied to the row's values.
C26_RowsConsistent ==
    last.op = "script" =>
        \A i \in 1..Len(last.table.df) :
            LET r == last.table.df[i]
            IN  /\ r.years_since_diagnosis = RSub(r.age, r.age_diagnosis)
                /\ r.axial_length_abnormal = RInt(B(RGt(r.avg_axial_length, Rat(49, 2))))
                /\ r.compliance_score = Clamp01(RDiv(r.wearing_hours, RInt(12)))
                /\ r.progression_risk = RInt(StatedCategory(StatedScore(r)))
                /\ r.estimated_progression = Clamp02(StatedRate(r))

\* C27: every load_model() call of the serving process that returns gives a
\* model whose scaler, classifier and regressor are fitted, also after an
\* earlier call raised; the process-wide model is never an unfitted instance.
C27_ReturnedModelFitted ==
    /\ (last.op \in RequestOps /\ last.err # "load_model") => IsFitted(last.after)
    /\ ~model.isNone => IsFitted(model.obj)

\* C28: a report request that reached its feature list built the 15 features
\* /api/predict builds for the same body, and got the prediction /api/predict
\* gets on the same model; when answered, the risk_factors,
\* progression_timeline and comparative_stats it hands to the report are the
\* ones /api/predict returns.
C28_ReportAsPredict ==
    (last.op = "api_generate_report" /\ last.features # <<>>) =>
        LET p == PredictAnswer(last.pd, last.after)
        IN  /\ Len(last.features) = 15
            /\ last.features = p.features
            /\ last.ok = p.ok
            /\ last.prediction = p.prediction
            /\ last.ok =>
                 /\ last.risk_factors = p.risk_factors
                 /\ last.progression_timeline = p.progression_timeline
                 /\ last.comparative_stats = p.comparative_stats

\* C28 witness: an answered report request with its three analyses.
C28_ReportAnswered ==
    /\ last.op = "api_generate_report" /\ last.ok
    /\ Len(last.features) = 15
    /\ Len(last.risk_factors.factors) > 0
    /\ Len(last.progression_timeline) = 4
    /\ last.comparative_stats.age_group = "8-10"

====
